---- MODULE Spec2Model ----
(***************************************************************************)
(* ActorCritic.update of rlpytorch/methods/actor_critic.py as a state      *)
(* machine: one action per statement group of update, the collaborators    *)
(* (model, DiscountedReward, PolicyGradient, ValueMatcher, stats) as the   *)
(* calls update makes on them.  Python index 0 is index 1 here.            *)
(***************************************************************************)
EXTENDS Integers, Sequences, FiniteSets, TLC

VARIABLES pc, calls, batch, m, t, state_curr, bht, isCuda, V, R, err,
          tot_err, drR, grads, stats, trace

vars == <<pc, calls, batch, m, t, state_curr, bht, isCuda, V, R, err,
          tot_err, drR, grads, stats, trace>>

(* ------------------------------ bounds -------------------------------- *)
MaxT == 3
NumInst == 2
MaxCalls == 2

Inst == 1..NumInst
TrajLens == 1..MaxT

(* ------------------------- numbers and tensors ------------------------ *)
\* args.discount of the return estimator, as a fraction <<num, den>>.
Discount == <<1, 2>>

RECURSIVE Pow(_, _)
Pow(b, n) == IF n = 0 THEN 1 ELSE b * Pow(b, n - 1)

\* Real numbers are integers in units of 1/One; One is large enough for
\* every discounting of a trajectory of MaxT steps to be exact.
One == Pow(Discount[2], MaxT)

None == <<>>
Some(x) == <<x>>

Uniform(x) == [i \in Inst |-> x]
FirstOther(x, y) == [i \in Inst |-> IF i = 1 THEN x ELSE y]

Tensor(v, g, d) == [val |-> v, grad |-> g, dev |-> d]
NoTensor == Tensor(Uniform(0), FALSE, "cpu")

\* x.data: the same numbers, cut from the gradient graph.
Data(x) == [x EXCEPT !.grad = FALSE]

\* x.squeeze(): the (batch, 1) value output as one number per instance.
Squeeze(x) == [x EXCEPT !.val = [i \in Inst |-> x.val[i][1]]]

\* a - b on tensors: differentiable as soon as one operand is.
Sub(a, b) == Tensor([i \in Inst |-> a.val[i] - b.val[i]], a.grad \/ b.grad, a.dev)

\* a + b on tensors (err += new_err).
Add(a, b) == Tensor([i \in Inst |-> a.val[i] + b.val[i]], a.grad \/ b.grad, a.dev)

\* torch.zeros_like(x)
ZerosLike(x) == Tensor([i \in Inst |-> 0], FALSE, x.dev)

\* x.cuda()
Cuda(x) == [x EXCEPT !.dev = "cuda"]

\* Variant: the reward is never moved.
Cudaify_Never(flag, x) == x

\* cudaify = lambda x: x.cuda() if isCuda else x
Cudaify(flag, x) == IF flag THEN Cuda(x) ELSE x

\* batch.hist(t): the history view of step t, opaque to update.
Hist(k) == [step |-> k]

\* The model called on a history view: a mapping of named outputs.  The
\* value output has shape (batch, 1), carries gradient and lives where the
\* model lives.
ModelOutput(h, hasKey, v, dev) ==
    [keys  |-> IF hasKey THEN {"value_node"} ELSE {},
     value |-> Tensor([i \in Inst |-> <<v[i]>>], TRUE, dev),
     hist  |-> h]
NoOutput == ModelOutput(Hist(0), FALSE, Uniform(0), "cpu")

(* ----------------------------- collaborators -------------------------- *)
\* DiscountedReward.setR(R, stats): the state becomes R, nothing decays.
DRSetR(value) == Some(value)

\* DiscountedReward.feed(dict(r, terminal), stats): one step of reward plus
\* discount, and the return restarts from r wherever terminal is set.
DRFeed(prev, a) ==
    Tensor([i \in Inst |->
               IF a.terminal.val[i] THEN a.r.val[i]
               ELSE (prev.val[i] * Discount[1]) \div Discount[2] + a.r.val[i]],
           FALSE, prev.dev)

\* utils.add_err(overall_err, new_err)
AddErr(overall, new) == IF overall = None THEN Some(new) ELSE Some(Add(overall[1], new))

\* stats[name].feed(value)
StatsFeed(s, name, value) == [s EXCEPT ![name] = Append(@, value)]
EmptyStats == [cost |-> <<>>, reward |-> <<>>]

(* ------------------------------- update ------------------------------- *)
Init ==
    /\ pc = "idle"
    /\ calls = 0
    /\ batch = [T |-> 0, rdev |-> "cpu", termdev |-> "cpu"]
    /\ m = [dev |-> "cpu"]
    /\ t = 0
    /\ state_curr = NoOutput
    /\ bht = Hist(0)
    /\ isCuda = FALSE
    /\ V = NoTensor
    /\ R = NoTensor
    /\ err = None
    /\ tot_err = None
    /\ drR = None
    /\ grads = 0
    /\ stats = EmptyStats
    /\ trace = <<>>

Log(e) == trace' = Append(trace, e)

\* Variant: the failure is swallowed and update goes on to report a cost.
Raise_Swallowed(who) ==
    /\ pc' = "L84"
    /\ Log([kind |-> "raise", t |-> t, who |-> who])

\* An exception leaves update: nothing catches it.
Raise(who) ==
    /\ pc' = "failed"
    /\ Log([kind |-> "raise", t |-> t, who |-> who])

\* lines 50-54: the caller hands over a model, a batch and a stats sink.
\* The batch's rewards and terminal flags are read-only and each is read
\* once, so their values are drawn where update reads them.  The sink
\* starts empty (its lifecycle is one call); t, unassigned in the code
\* until the loop, stands at T - 1 for the statements before the loop.
BeginUpdate(D) ==
    /\ pc \in {"idle", "done", "failed"}
    /\ calls < MaxCalls
    /\ \E len \in TrajLens, md \in D.ModelDevs, rd \in D.RDevs, td \in D.TermDevs :
          /\ batch' = [T |-> len, rdev |-> rd, termdev |-> td]
          /\ m' = [dev |-> md]
          /\ t' = len - 1
    /\ calls' = calls + 1
    /\ stats' = EmptyStats
    /\ trace' = <<[kind |-> "begin", t |-> t', grads |-> grads]>>
    /\ state_curr' = NoOutput /\ bht' = Hist(0) /\ isCuda' = FALSE
    /\ V' = NoTensor /\ R' = NoTensor /\ err' = None /\ tot_err' = None
    /\ pc' = "L56"
    /\ UNCHANGED <<drR, grads>>

\* line 56: state_curr = m(batch.hist(T - 1))
ModelFinal(D) ==
    /\ pc = "L56"
    /\ \E raise \in D.Faults :
          IF raise
          THEN /\ Raise("model")
               /\ UNCHANGED state_curr
          ELSE \E hasKey \in D.Keys, v \in D.Vals :
                  /\ state_curr' = ModelOutput(Hist(batch.T - 1), hasKey, v, m.dev)
                  /\ Log([kind |-> "model", t |-> batch.T - 1,
                          hist |-> Hist(batch.T - 1), out |-> state_curr'])
                  /\ pc' = "L57"
    /\ UNCHANGED <<calls, batch, m, t, bht, isCuda, V, R, err, tot_err, drR,
                   grads, stats>>

\* lines 57-58: isCuda = state_curr[value_node].is_cuda
SenseDevice ==
    /\ pc = "L57"
    /\ IF "value_node" \in state_curr.keys
       THEN /\ isCuda' = (state_curr.value.dev = "cuda")
            /\ Log([kind |-> "sense", t |-> t, cuda |-> isCuda'])
            /\ pc' = "L60"
       ELSE /\ Raise("KeyError")
            /\ UNCHANGED isCuda
    /\ UNCHANGED <<calls, batch, m, t, state_curr, bht, V, R, err, tot_err,
                   drR, grads, stats>>

\* Variant: the loop starts at T - 1.
SetR_FromLast ==
    /\ pc = "L60"
    /\ drR' = DRSetR(Data(Squeeze(state_curr.value)))
    /\ Log([kind |-> "setR", t |-> t, value |-> drR'[1],
             stale |-> (drR # None /\ drR # drR')])
    /\ tot_err' = None
    /\ t' = batch.T - 1
    /\ pc' = IF t' >= 0 THEN "L65" ELSE "L84"
    /\ UNCHANGED <<calls, batch, m, state_curr, bht, isCuda, V, R, err, grads,
                   stats>>

\* Variant: the estimator is seeded only when it holds no return yet.
SetR_OnlyFirst ==
    /\ pc = "L60"
    /\ drR' = IF drR = None THEN DRSetR(Data(Squeeze(state_curr.value))) ELSE drR
    /\ Log([kind |-> "setR", t |-> t, value |-> drR'[1],
             stale |-> (drR # None /\ drR # drR')])
    /\ tot_err' = None
    /\ t' = batch.T - 2
    /\ pc' = IF t' >= 0 THEN "L65" ELSE "L84"
    /\ UNCHANGED <<calls, batch, m, state_curr, bht, isCuda, V, R, err, grads,
                   stats>>

\* lines 60-64: setR with the detached final value, tot_err = None, and the
\* loop variable starts at T - 2.
SetR ==
    /\ pc = "L60"
    /\ drR' = DRSetR(Data(Squeeze(state_curr.value)))
    /\ Log([kind |-> "setR", t |-> t, value |-> drR'[1],
             stale |-> (drR # None /\ drR # drR')])
    /\ tot_err' = None
    /\ t' = batch.T - 2
    /\ pc' = IF t' >= 0 THEN "L65" ELSE "L84"
    /\ UNCHANGED <<calls, batch, m, state_curr, bht, isCuda, V, R, err, grads,
                   stats>>

\* lines 65-66: bht = batch.hist(t); state_curr = m.forward(bht)
Forward(D) ==
    /\ pc = "L65"
    /\ bht' = Hist(t)
    /\ \E raise \in D.Faults :
          IF raise
          THEN /\ Raise("model")
               /\ UNCHANGED state_curr
          ELSE \E hasKey \in D.Keys, v \in D.Vals :
                  /\ state_curr' = ModelOutput(bht', hasKey, v, m.dev)
                  /\ Log([kind |-> "model", t |-> t, hist |-> bht',
                          out |-> state_curr'])
                  /\ pc' = "L69"
    /\ UNCHANGED <<calls, batch, m, t, isCuda, V, R, err, tot_err, drR, grads,
                   stats>>

\* line 69: V = state_curr[value_node].squeeze()
ExtractV ==
    /\ pc = "L69"
    /\ IF "value_node" \in state_curr.keys
       THEN /\ V' = Squeeze(state_curr.value)
            /\ pc' = "L71"
            /\ UNCHANGED trace
       ELSE /\ Raise("KeyError")
            /\ UNCHANGED V
    /\ UNCHANGED <<calls, batch, m, t, state_curr, bht, isCuda, R, err,
                   tot_err, drR, grads, stats>>

\* Variant: the terminal flags are not handed over.
FeedArgs_NoTerminal(flag, rt, termt) ==
    [r |-> Cudaify(flag, rt), terminal |-> [termt EXCEPT !.val = Uniform(FALSE)]]

\* line 72: dict(r=cudaify(batch["r"][t]), terminal=batch["terminal"][t])
FeedArgs(flag, rt, termt) == [r |-> Cudaify(flag, rt), terminal |-> termt]

\* lines 71-73: R = self.discounted_reward.feed(..., stats=stats).  The
\* estimator adds the reward to its state: operands on two devices raise.
FeedReturn(D) ==
    /\ pc = "L71"
    /\ \E rv \in D.Rews, tv \in D.Terms, raise \in D.Faults :
          LET a == FeedArgs(isCuda, Tensor(rv, FALSE, batch.rdev),
                            Tensor(tv, FALSE, batch.termdev))
              e == [kind |-> "feed", t |-> t, r |-> a.r, terminal |-> a.terminal,
                    outdev |-> state_curr.value.dev, prev |-> drR[1],
                    batch_r |-> rv, batch_terminal |-> tv]
          IN  IF raise \/ a.r.dev # drR[1].dev
              THEN /\ pc' = "failed"
                   /\ trace' = trace \o <<e @@ [ok |-> FALSE, ret |-> drR[1]],
                                           [kind |-> "raise", t |-> t,
                                            who |-> "discounted_reward"]>>
                   /\ UNCHANGED <<drR, R, stats>>
              ELSE /\ drR' = Some(DRFeed(drR[1], a))
                   /\ R' = drR'[1]
                   /\ stats' = StatsFeed(stats, "reward", a.r.val)
                   /\ Log(e @@ [ok |-> TRUE, ret |-> R'])
                   /\ pc' = "L76"
    /\ UNCHANGED <<calls, batch, m, t, state_curr, bht, isCuda, V, err,
                   tot_err, grads>>

\* Variant: the value is not detached.
Advantage_Attached(ret, value) == Sub(ret, value)

\* line 76: the advantage R - V.data
Advantage(ret, value) == Sub(ret, Data(value))

\* lines 75-77: err = None; policy_err = self.pg.feed(R - V.data, state_curr,
\* bht, stats, old_pi_s=bht); err = add_err(err, policy_err)
FeedPG(D) ==
    /\ pc = "L76"
    /\ \E raise \in D.Faults :
          IF raise
          THEN /\ Raise("pg")
               /\ UNCHANGED err
          ELSE \E loss \in D.Losses :
                  /\ err' = AddErr(None, Tensor(loss, TRUE, state_curr.value.dev))
                  /\ Log([kind |-> "pg", t |-> t, adv |-> Advantage(R, V),
                          out |-> state_curr, hist |-> bht, old_pi_s |-> bht,
                          loss |-> loss])
                  /\ pc' = "L78"
    /\ UNCHANGED <<calls, batch, m, t, state_curr, bht, isCuda, V, R, tot_err,
                   drR, grads, stats>>

\* line 78: { value_node: V, "target": R }
MatcherArgs(value, ret) == [value_node |-> value, target |-> ret]

\* line 78: err = add_err(err, self.value_matcher.feed({...}, stats))
FeedVM(D) ==
    /\ pc = "L78"
    /\ \E raise \in D.Faults :
          IF raise
          THEN /\ Raise("value_matcher")
               /\ UNCHANGED err
          ELSE \E loss \in D.Losses :
                  /\ err' = AddErr(err, Tensor(loss, TRUE, state_curr.value.dev))
                  /\ Log([kind |-> "vm", t |-> t, args |-> MatcherArgs(V, R),
                          loss |-> loss])
                  /\ pc' = "L79"
    /\ UNCHANGED <<calls, batch, m, t, state_curr, bht, isCuda, V, R, tot_err,
                   drR, grads, stats>>

\* lines 80-82: tot_err is allocated as zeros on first use, then += err.data
Accumulate(tot, e) ==
    Some(Add(IF tot = None THEN ZerosLike(Data(e)) ELSE tot[1], Data(e)))

\* Variant: the loop stops before t = 0.
Backward_StopsAtOne ==
    /\ pc = "L79"
    /\ grads' = grads + 1
    /\ Log([kind |-> "backward", t |-> t, err |-> err[1]])
    /\ tot_err' = Accumulate(tot_err, err[1])
    /\ t' = t - 1
    /\ pc' = IF t' >= 1 THEN "L65" ELSE "L84"
    /\ UNCHANGED <<calls, batch, m, state_curr, bht, isCuda, V, R, err, drR,
                   stats>>

\* Variant: the step's error is accumulated but not propagated.
Backward_NotPropagated ==
    /\ pc = "L79"
    /\ tot_err' = Accumulate(tot_err, err[1])
    /\ t' = t - 1
    /\ pc' = IF t' >= 0 THEN "L65" ELSE "L84"
    /\ UNCHANGED <<calls, batch, m, state_curr, bht, isCuda, V, R, err, drR,
                   stats, grads, trace>>

\* lines 79-82 and the loop step of line 64: err.backward(), the numeric
\* error is added to tot_err, t goes down by one.
Backward ==
    /\ pc = "L79"
    /\ grads' = grads + 1
    /\ Log([kind |-> "backward", t |-> t, err |-> err[1]])
    /\ tot_err' = Accumulate(tot_err, err[1])
    /\ t' = t - 1
    /\ pc' = IF t' >= 0 THEN "L65" ELSE "L84"
    /\ UNCHANGED <<calls, batch, m, state_curr, bht, isCuda, V, R, err, drR,
                   stats>>

\* Variant: the mean is taken over T steps.
Cost_OverT(tot, len) == <<tot[1].val[1], len>>

\* line 84: tot_err[0] / (T - 1), kept as the fraction <<numerator, denominator>>
Cost(tot, len) == <<tot[1].val[1], len - 1>>

\* Variant: a cost of zero is reported when no step ran.
ReportCost_ZeroWhenNone ==
    /\ pc = "L84"
    /\ stats' = StatsFeed(stats, "cost",
                          IF tot_err = None THEN <<0, 1>> ELSE Cost(tot_err, batch.T))
    /\ Log([kind |-> "cost", t |-> t, value |-> stats'.cost[1]])
    /\ pc' = "done"
    /\ UNCHANGED <<calls, batch, m, t, state_curr, bht, isCuda, V, R, err,
                   tot_err, drR, grads>>

\* line 84: stats["cost"].feed(tot_err[0] / (T - 1)); None[0] is a TypeError.
ReportCost ==
    /\ pc = "L84"
    /\ IF tot_err = None
       THEN /\ Raise("TypeError")
            /\ UNCHANGED stats
       ELSE /\ stats' = StatsFeed(stats, "cost", Cost(tot_err, batch.T))
            /\ Log([kind |-> "cost", t |-> t, value |-> Cost(tot_err, batch.T)])
            /\ pc' = "done"
    /\ UNCHANGED <<calls, batch, m, t, state_curr, bht, isCuda, V, R, err,
                   tot_err, drR, grads>>

Next(D) ==
    \/ BeginUpdate(D)
    \/ ModelFinal(D)
    \/ SenseDevice
    \/ SetR
    \/ Forward(D)
    \/ ExtractV
    \/ FeedReturn(D)
    \/ FeedPG(D)
    \/ FeedVM(D)
    \/ Backward
    \/ ReportCost

(* --------------------------- input domains ---------------------------- *)
Devices == {"cpu", "cuda"}

\* Every placement of model, rewards and terminal flags, a value output
\* with or without the value_node key, collaborators that may raise.
FlowInputs ==
    [ModelDevs |-> Devices, RDevs |-> Devices, TermDevs |-> Devices,
     Keys |-> BOOLEAN, Faults |-> BOOLEAN,
     Vals |-> {Uniform(One)}, Rews |-> {Uniform(One)},
     Terms |-> {Uniform(FALSE)}, Losses |-> {Uniform(One)}]

\* Rewards, terminal flags and value estimates vary per instance.
ReturnInputs ==
    [ModelDevs |-> {"cpu"}, RDevs |-> {"cpu"}, TermDevs |-> {"cpu"},
     Keys |-> {TRUE}, Faults |-> {FALSE},
     Vals |-> {Uniform(One), FirstOther(0, 3 * One)},
     Rews |-> {Uniform(One), FirstOther(0, 2 * One)},
     Terms |-> {Uniform(FALSE), Uniform(TRUE), FirstOther(TRUE, FALSE),
                FirstOther(FALSE, TRUE)},
     Losses |-> {Uniform(One)}]

\* The losses of the two objectives vary per instance.
CostInputs ==
    [ModelDevs |-> {"cpu"}, RDevs |-> {"cpu"}, TermDevs |-> {"cpu"},
     Keys |-> {TRUE}, Faults |-> {FALSE},
     Vals |-> {Uniform(One)}, Rews |-> {Uniform(One)},
     Terms |-> {Uniform(FALSE)},
     Losses |-> {Uniform(One), FirstOther(0, One), FirstOther(3, 2)}]

Spec == Init /\ [][Next(FlowInputs)]_vars
SpecReturn == Init /\ [][Next(ReturnInputs)]_vars
SpecCost == Init /\ [][Next(CostInputs)]_vars

(* ------------------------- reading the trace -------------------------- *)
Idx(kind) == {j \in DOMAIN trace : trace[j].kind = kind}
IdxAt(kind, k) == {j \in Idx(kind) : trace[j].t = k}
Count(kind) == Cardinality(Idx(kind))
EvAt(kind, k) == trace[CHOOSE j \in IdxAt(kind, k) : TRUE]
Last == trace[Len(trace)]
GradsAtEntry == trace[1].grads
LastStep == batch.T - 1

(* ------------------------------- claims ------------------------------- *)
\* C1: a call on a trajectory of length T >= 2 that returns has performed
\* exactly T-1 gradient propagations and exactly T-1 feeds of the return
\* estimator, one of each for every t in 0..T-2 and none for t = T-1.
C1_ExactlyTMinusOne ==
    pc = "done" =>
       /\ batch.T >= 2
       /\ Count("backward") = batch.T - 1
       /\ Count("feed") = batch.T - 1
       /\ grads = GradsAtEntry + batch.T - 1
       /\ \A k \in 0..(batch.T - 2) :
             /\ Cardinality(IdxAt("backward", k)) = 1
             /\ Cardinality(IdxAt("feed", k)) = 1
       /\ IdxAt("backward", LastStep) = {}
       /\ IdxAt("feed", LastStep) = {}

C1_Witness ==
    pc = "done" /\ batch.T = MaxT /\ Count("backward") = MaxT - 1

RECURSIVE SumFirst(_)
SumFirst(j) ==
    IF j = 0 THEN 0
    ELSE SumFirst(j - 1)
         + (IF trace[j].kind \in {"pg", "vm"} THEN trace[j].loss[1] ELSE 0)

\* C2: cost is fed exactly once, after the gradient propagation of t = 0,
\* and it is the sum over the T-1 steps of the first instance's
\* policy-gradient loss plus value-matching loss, divided by T-1.
C2_CostIsMeanOfFirst ==
    /\ pc # "done" => stats.cost = <<>>
    /\ pc = "done" =>
          /\ stats.cost = << <<SumFirst(Len(trace)), batch.T - 1>> >>
          /\ Count("cost") = 1
          /\ Last.kind = "cost"
          /\ trace[Len(trace) - 1].kind = "backward"
          /\ trace[Len(trace) - 1].t = 0

C2_Witness ==
    /\ pc = "done" /\ batch.T = MaxT
    /\ tot_err[1].val[1] # tot_err[1].val[2]
    /\ stats.cost[1][1] > 0

\* C3: a call with T = 1 never returns normally, propagates no gradient and
\* feeds no cost; once setR has run it fails the same way every time, on
\* the subscript of the unallocated tot_err.
C3_LengthOneFails ==
    (calls > 0 /\ batch.T = 1) =>
       /\ pc \in {"L56", "L57", "L60", "L84", "failed"}
       /\ Count("backward") = 0
       /\ Count("model") <= 1
       /\ grads = GradsAtEntry
       /\ stats.cost = <<>>
       /\ (pc = "failed" /\ Count("setR") = 1) => Last.who = "TypeError"

C3_Witness ==
    /\ batch.T = 1 /\ pc = "failed"
    /\ Last.kind = "raise" /\ Last.who = "TypeError"

Bootstrap == Data(Squeeze(EvAt("model", LastStep).out.value))

RECURSIVE ExpectedReturn(_)
ExpectedReturn(k) ==
    IF k >= LastStep THEN Bootstrap.val
    ELSE LET e == EvAt("feed", k)
             later == ExpectedReturn(k + 1)
         IN  [i \in Inst |->
                IF e.batch_terminal[i] THEN e.batch_r[i]
                ELSE (later[i] * Discount[1]) \div Discount[2] + e.batch_r[i]]

\* C4: in every call, the second included, setR is invoked once, before
\* any feed, with the value estimate of the call's own step T-1, and every
\* return of the call is the one computed from the call's own rewards,
\* terminal flags and bootstrap value.
C4_NoLeakBetweenCalls ==
    /\ Count("setR") <= 1
    /\ pc \in {"L65", "L69", "L71", "L76", "L78", "L79", "L84", "done"}
          => Count("setR") = 1
    /\ \A s \in Idx("setR") :
          /\ trace[s].value = Bootstrap
          /\ \A j \in Idx("feed") : s < j
    /\ \A j \in Idx("feed") :
          /\ Idx("setR") # {}
          /\ trace[j].ret.val = ExpectedReturn(trace[j].t)

C4_Witness ==
    /\ calls = 2 /\ pc = "done" /\ batch.T = MaxT
    /\ \E s \in Idx("setR") : trace[s].stale

PrecondFailure ==
    /\ pc = "failed"
    /\ (batch.T < 2 \/ Last.who = "KeyError")

C6_AdvantageDetached ==
    /\ \A j \in Idx("pg") :
          LET k == trace[j].t
              Vk == Squeeze(EvAt("model", k).out.value)
              Rk == EvAt("feed", k).ret
          IN  /\ trace[j].adv.grad = FALSE
              /\ trace[j].adv.val = [i \in Inst |-> Rk.val[i] - Vk.val[i]]
    /\ \A j \in Idx("vm") :
          LET k == trace[j].t
              Vk == Squeeze(EvAt("model", k).out.value)
              Rk == EvAt("feed", k).ret
          IN  /\ trace[j].args.value_node = Vk
              /\ trace[j].args.value_node.grad = TRUE
              /\ trace[j].args.target = Rk
              /\ trace[j].args.target.grad = FALSE
              /\ EvAt("pg", k).adv.val =
                    [i \in Inst |-> trace[j].args.target.val[i]
                                      - trace[j].args.value_node.val[i]]

C6_Witness ==
    \E j \in Idx("vm") :
       /\ EvAt("pg", trace[j].t).adv.val[1] # 0
       /\ trace[j].args.value_node.val[1] # 0
       /\ trace[j].args.value_node.grad

\* C7: where the terminal flag of an instance is set at step t, the return
\* used at t as advantage base and value target is the reward of step t,
\* whatever the bootstrap value and the later returns were.
C7_TerminalCutsReturn ==
    \A j \in Idx("feed") : \A i \in Inst :
       trace[j].batch_terminal[i] =>
          /\ trace[j].ret.val[i] = trace[j].batch_r[i]
          /\ \A p \in IdxAt("pg", trace[j].t) :
                trace[p].adv.val[i] =
                   trace[j].batch_r[i] - trace[p].out.value.val[i][1]
          /\ \A q \in IdxAt("vm", trace[j].t) :
                trace[q].args.target.val[i] = trace[j].batch_r[i]

C7_Witness ==
    /\ batch.T = 2 /\ pc = "done"
    /\ \E j \in IdxAt("feed", 0) :
          /\ trace[j].batch_terminal[1]
          /\ trace[j].prev.val[1] # 0
          /\ trace[j].ret.val[1] = trace[j].batch_r[1]

\* C8: the steps run backward in time without overlap: the gradient
\* propagation of step t comes right after the model forward, the
\* estimator feed, the policy-gradient feed and the value-matcher feed of
\* step t, and before the model forward of step t-1; the history view of
\* step t is the one given to the model and to the policy-gradient feed.
C8_BackwardInTime ==
    /\ \A j \in Idx("backward") :
          /\ j >= 5
          /\ trace[j - 4].kind = "model" /\ trace[j - 4].t = trace[j].t
          /\ trace[j - 3].kind = "feed" /\ trace[j - 3].t = trace[j].t
          /\ trace[j - 2].kind = "pg" /\ trace[j - 2].t = trace[j].t
          /\ trace[j - 1].kind = "vm" /\ trace[j - 1].t = trace[j].t
          /\ trace[j].t \in 0..(batch.T - 2)
    /\ \A j \in Idx("model") :
          /\ trace[j].hist = Hist(trace[j].t)
          /\ trace[j].out.hist = trace[j].hist
          /\ trace[j].t < batch.T - 2 =>
                /\ trace[j - 1].kind = "backward"
                /\ trace[j - 1].t = trace[j].t + 1
    /\ \A j \in Idx("pg") :
          /\ trace[j - 2].kind = "model"
          /\ trace[j].hist = trace[j - 2].hist
          /\ trace[j].old_pi_s = trace[j - 2].hist
          /\ trace[j].out = trace[j - 2].out

C8_Witness ==
    /\ batch.T = MaxT /\ Count("backward") = MaxT - 1
    /\ \E j \in Idx("model") :
          trace[j].t = 0 /\ trace[j - 1].kind = "backward"

Collaborators == {"model", "discounted_reward", "pg", "value_matcher"}

\* C9: when a collaborator raises in the k-th loop iteration (t = T-1-k)
\* the call has failed: the raise is the last thing that happened, exactly
\* k-1 gradient propagations were applied and are still applied, and no
\* cost was fed.
C9_FailureSurfaces ==
    \A j \in Idx("raise") :
       /\ j = Len(trace)
       /\ pc = "failed"
       /\ stats.cost = <<>>
       /\ (trace[j].who \in Collaborators /\ trace[j].t <= batch.T - 2) =>
             /\ Count("backward") = batch.T - 2 - trace[j].t
             /\ grads = GradsAtEntry + batch.T - 2 - trace[j].t
             /\ Count("model") = batch.T - trace[j].t
                   - (IF trace[j].who = "model" THEN 1 ELSE 0)

C9_Witness ==
    /\ pc = "failed" /\ batch.T = MaxT
    /\ Last.who = "pg" /\ Last.t = 0
    /\ Count("backward") = MaxT - 2
    /\ grads = GradsAtEntry + MaxT - 2

\* C10 as stated: the reward and the terminal flag fed to the return
\* estimator are on the device of the step's value output, whatever the
\* placement of the batch.
C10_Original ==
    \A j \in Idx("feed") :
       /\ trace[j].r.dev = trace[j].outdev
       /\ trace[j].terminal.dev = trace[j].outdev

\* C10 as amended: placement is sensed once per call, from the value
\* output of step T-1; when that output is on the accelerator the reward
\* fed at every step is on the accelerator too, otherwise the reward keeps
\* the batch's placement, and the terminal flag always keeps the batch's
\* placement.
C10_Amended ==
    /\ Count("sense") <= 1
    /\ \A s \in Idx("sense") :
          /\ trace[s].cuda = (EvAt("model", LastStep).out.value.dev = "cuda")
          /\ isCuda = trace[s].cuda
          /\ \A j \in Idx("feed") : s < j
    /\ \A j \in Idx("feed") :
          /\ Count("sense") = 1
          /\ isCuda => (trace[j].r.dev = "cuda" /\ trace[j].r.dev = trace[j].outdev)
          /\ ~isCuda => trace[j].r.dev = batch.rdev
          /\ trace[j].terminal.dev = batch.termdev

C10_Witness ==
    \E j \in Idx("feed") :
       /\ trace[j].ok
       /\ batch.rdev = "cpu" /\ batch.termdev = "cpu"
       /\ trace[j].r.dev = "cuda" /\ trace[j].outdev = "cuda"

====
